---- MODULE Spec2Model ----
(***************************************************************************)
(* Library index of ssce-desktop (src-tauri/src/main.rs): the SQLite       *)
(* table `files`, its FTS5 shadow table `files_fts` kept in step by three  *)
(* triggers, the Tauri commands that read and write them behind one        *)
(* Mutex<Connection>, and the library scan db_rebuild_from_library.        *)
(*                                                                         *)
(* Strings are TLA+ strings, Option<T> is a tuple of length 0 (None) or 1  *)
(* (Some).  A row of `files` is a record, the table a set of rows.         *)
(***************************************************************************)
EXTENDS Integers, Sequences, FiniteSets, TLC

VARIABLES
    files,      \* rows of table `files`
    fts,        \* entries of the FTS5 index `files_fts`
    lastRowid,  \* the connection's last_insert_rowid()
    lock,       \* holder of the Mutex<Connection>, or NoProc
    pc,         \* per caller: idle, wait, run, scan, prune, done
    loc,        \* per caller: command, argument, result, scan stack, count
    fs,         \* the .ssce files on disk: path -> envelope or Absent
    calls,      \* number of commands invoked so far
    fsEvents,   \* number of external filesystem changes so far
    pre,        \* history: `files` when the current lock holder acquired
    written,    \* history: rows the running scan has written, by path
    fsChanged,  \* history: the filesystem changed since the scan locked
    ioFailed,   \* history: the running scan met a read error
    prevRun,    \* history: outcome of the previous undisturbed rebuild
    moved       \* history: the rename that was the last change of the
                \* filesystem, if it came while a scan was walking

vars == <<files, fts, lastRowid, lock, pc, loc, fs, calls, fsEvents,
          pre, written, fsChanged, ioFailed, prevRun, moved>>

-----------------------------------------------------------------------------
(* Bounds of the model *)

MaxCalls == 2
MaxFsEvents == 1
MaxQueryCalls == 4

-----------------------------------------------------------------------------
(* Option<T> *)

None == <<>>
Some(x) == <<x>>
IsSome(o) == Len(o) = 1
Unwrap(o) == o[1]

Max(S) == CHOOSE m \in S : \A n \in S : n <= m

-----------------------------------------------------------------------------
(* Strings *)

Ch(s, i) == SubSeq(s, i, i)
Drop(s, n) == SubSeq(s, n + 1, Len(s))
Take(s, n) == SubSeq(s, 1, n)

\* char::is_whitespace, restricted to the characters the model uses
IsWhitespace(c) == c \in {" ", "\t", "\n"}

RECURSIVE TrimStart(_)
TrimStart(s) ==
    IF Len(s) > 0 /\ IsWhitespace(Ch(s, 1)) THEN TrimStart(Drop(s, 1)) ELSE s

RECURSIVE TrimEnd(_)
TrimEnd(s) ==
    IF Len(s) > 0 /\ IsWhitespace(Ch(s, Len(s)))
    THEN TrimEnd(Take(s, Len(s) - 1)) ELSE s

\* str::trim
Trim(s) == TrimEnd(TrimStart(s))

\* length of the longest prefix of s without whitespace
RECURSIVE WordLen(_)
WordLen(s) ==
    IF Len(s) = 0 \/ IsWhitespace(Ch(s, 1)) THEN 0 ELSE 1 + WordLen(Drop(s, 1))

\* str::split_whitespace, collected
RECURSIVE SplitWhitespace(_)
SplitWhitespace(s) ==
    LET t == TrimStart(s) IN
    IF Len(t) = 0 THEN <<>>
    ELSE <<Take(t, WordLen(t))>> \o SplitWhitespace(Drop(t, WordLen(t)))

\* [&str]::join(sep)
RECURSIVE Join(_, _)
Join(ws, sep) ==
    IF Len(ws) = 0 THEN ""
    ELSE IF Len(ws) = 1 THEN ws[1]
    ELSE ws[1] \o sep \o Join(Tail(ws), sep)

IsPrefix(p, s) == Len(p) <= Len(s) /\ Take(s, Len(p)) = p

\* position of the last occurrence of character c in s, 0 when there is none
LastIndexOf(s, c) == Max({0} \cup {i \in 1..Len(s) : Ch(s, i) = c})

\* Byte order of the characters that occur in compared strings (ASCII order)
Alphabet == " -./0123456789:ABCDEFGHIJKLMNOPQRSTUVWXYZ_abcdefghijklmnopqrstuvwxyz"

Code(c) == CHOOSE i \in 1..Len(Alphabet) : Ch(Alphabet, i) = c

\* memcmp order of two TEXT values (SQLite BINARY collation): s <= t
RECURSIVE StrLeq(_, _)
StrLeq(s, t) ==
    IF Len(s) = 0 THEN TRUE
    ELSE IF Len(t) = 0 THEN FALSE
    ELSE IF Ch(s, 1) = Ch(t, 1) THEN StrLeq(Drop(s, 1), Drop(t, 1))
    ELSE Code(Ch(s, 1)) < Code(Ch(t, 1))

-----------------------------------------------------------------------------
(* Paths *)

\* Path::file_name, to_string_lossy: the last segment of the path
FileName(p) == Drop(p, LastIndexOf(p, "/"))

\* Path::parent, as a string
Parent(p) == Take(p, LastIndexOf(p, "/") - 1)

\* Path::extension: what follows the last "." of the file name, None when
\* the name has no "." or only a leading one
Extension(p) ==
    LET n == FileName(p)
        d == LastIndexOf(n, ".")
    IN  IF d <= 1 THEN None ELSE Some(Drop(n, d))

\* path.extension().map(|e| e == "ssce").unwrap_or(false)
IsSsce(p) == IsSome(Extension(p)) /\ Unwrap(Extension(p)) = "ssce"

-----------------------------------------------------------------------------
(* The library on disk *)

Root == "/lib"
Sub == "/lib/sub"
Outside == "/out"
Gone == "/gone"
PathA == "/lib/a.ssce"
PathB == "/lib/sub/b.ssce"
PathC == "/out/c.ssce"
PathN == "/lib/n.txt"

Dirs == {Root, Sub, Outside}
SsceFiles == {PathA, PathB, PathC}
Entries == Dirs \cup SsceFiles \cup {PathN}

\* A parsed envelope (serde_json::Value read through get/and_then/as_str):
\* a field that is missing or of the wrong JSON type is None; an element of
\* the keywords array is Some(string), or None when it is not a string.
DocA == [thumbnail |-> Some("data:a"),
         keywords  |-> Some(<<Some("alpha"), Some("beta")>>),
         title     |-> Some("Quarterly Report"),
         summary   |-> Some("sales figures"),
         modified  |-> Some("2024-01-01"),
         snapshots |-> Some(2)]
DocB == [thumbnail |-> None, keywords |-> None, title |-> None,
         summary |-> None, modified |-> None, snapshots |-> None]
DocC == [thumbnail |-> None,
         keywords  |-> Some(<<>>),
         title     |-> Some("Notes"),
         summary   |-> None,
         modified  |-> Some("2024-03-01"),
         snapshots |-> Some(0)]
Docs == {DocA, DocB, DocC}

\* Path::exists
Exists(disk, p) ==
    \/ p \in Dirs
    \/ p = PathN
    \/ p \in DOMAIN disk /\ IsSome(disk[p])

\* scan_dir that never descends: no entry counts as a directory
IsDirNever(p) == FALSE

\* Path::is_dir
IsDir(p) == p \in Dirs

\* the entries fs::read_dir(dir) yields
DirEntries(disk, dir) == {e \in Entries : Parent(e) = dir /\ Exists(disk, e)}

\* every order in which the entries of a set can be yielded
Orders(S) ==
    {q \in [1..Cardinality(S) -> S] : \A i, j \in DOMAIN q : q[i] = q[j] => i = j}

-----------------------------------------------------------------------------
(* Schema: table files, FTS5 table files_fts, triggers *)

\* the columns files_fts projects, keyed by rowid = files.id
FtsEntry(r) ==
    [rowid |-> r.id, filename |-> r.filename, title |-> r.title,
     summary |-> r.summary, keywords |-> r.keywords]

\* trigger files_ai: INSERT INTO files_fts(rowid, ...) VALUES (new.id, ...)
TriggerAI(index, new) == index \cup {FtsEntry(new)}

\* no trigger files_ad: a deleted row leaves its index entry behind
TriggerADKeep(index, old) == index

\* trigger files_ad: the FTS5 'delete' command with the old row's values
TriggerAD(index, old) == index \ {FtsEntry(old)}

\* files_au without its 'delete' half
TriggerAUInsertOnly(index, old, new) == index \cup {FtsEntry(new)}

\* trigger files_au: 'delete' of the old values, then insert of the new
TriggerAU(index, old, new) == (index \ {FtsEntry(old)}) \cup {FtsEntry(new)}

\* id INTEGER PRIMARY KEY: an insert without id takes max(rowid) + 1
NextRowid(rows) == IF rows = {} THEN 1 ELSE Max({r.id : r \in rows}) + 1

\* the conflict target is filename instead of path
ConflictingByFilename(rows, p) ==
    {r \in rows : r.filename = FileName(p)}

\* no UNIQUE on path: an insert never conflicts
ConflictingNever(rows, p) == {}

\* path TEXT UNIQUE: the rows an insert of path p conflicts with
Conflicting(rows, p) == {r \in rows : r.path = p}

\* COALESCE(x, y) of two nullable values
Coalesce(x, y) == IF IsSome(x) THEN x ELSE y

\* db_upsert_file with the SET clause of scan_dir
UpsertLastOpenedKept(old, excluded) ==
    IF IsSome(old.last_opened) THEN old.last_opened ELSE excluded.last_opened

\* scan_dir with the SET clause of db_upsert_file
ScanLastOpenedExcluded(old, excluded) == excluded.last_opened

\* SET last_opened = excluded.last_opened (db_upsert_file)
UpsertLastOpened(old, excluded) == excluded.last_opened

\* SET last_opened = COALESCE(files.last_opened, excluded.last_opened)
\* (scan_dir)
ScanLastOpened(old, excluded) == Coalesce(old.last_opened, excluded.last_opened)

\* INSERT INTO files (path, ...) VALUES (...) without conflict, on connection
\* state db = [files, fts, last]: the row gets the next rowid, trigger
\* files_ai runs, and last_insert_rowid becomes the new id (inserts made by
\* a trigger leave it as it was once the trigger ends)
InsertRow(db, v) ==
    LET new == [id |-> NextRowid(db.files), path |-> v.path,
                filename |-> v.filename, thumbnail |-> v.thumbnail,
                title |-> v.title, summary |-> v.summary,
                keywords |-> v.keywords, modified |-> v.modified,
                last_opened |-> v.last_opened,
                snapshot_count |-> v.snapshot_count]
    IN  [files |-> db.files \cup {new},
         fts   |-> TriggerAI(db.fts, new),
         last  |-> new.id]

\* INSERT OR REPLACE: the conflicting row is deleted and the new values are
\* inserted as a new row, with the next rowid
UpdateRowReplace(db, old, v, last_opened) ==
    LET rest == db.files \ {old}
        new == [old EXCEPT !.id = NextRowid(db.files),
                           !.filename = v.filename,
                           !.thumbnail = v.thumbnail,
                           !.title = v.title,
                           !.summary = v.summary,
                           !.keywords = v.keywords,
                           !.modified = v.modified,
                           !.last_opened = last_opened,
                           !.snapshot_count = v.snapshot_count]
    IN  [files |-> rest \cup {new},
         fts   |-> TriggerAI(TriggerAD(db.fts, old), new),
         last  |-> new.id]

\* DO UPDATE SET title = COALESCE(excluded.title, files.title), and so on:
\* a value the new record lacks leaves the stored one in place
UpdateRowCoalesce(db, old, v, last_opened) ==
    LET new == [old EXCEPT !.filename = v.filename,
                           !.thumbnail = Coalesce(v.thumbnail, old.thumbnail),
                           !.title = Coalesce(v.title, old.title),
                           !.summary = Coalesce(v.summary, old.summary),
                           !.keywords = Coalesce(v.keywords, old.keywords),
                           !.modified = Coalesce(v.modified, old.modified),
                           !.last_opened = last_opened,
                           !.snapshot_count = v.snapshot_count]
    IN  [files |-> (db.files \ {old}) \cup {new},
         fts   |-> TriggerAU(db.fts, old, new),
         last  |-> db.last]

\* ON CONFLICT(path) DO UPDATE SET filename = excluded.filename, ...: the
\* seven columns both statements assign alike; last_opened is set by each
\* statement's own clause.  Trigger files_au runs; last_insert_rowid stays.
UpdateRow(db, old, v, last_opened) ==
    LET new == [old EXCEPT !.filename = v.filename,
                           !.thumbnail = v.thumbnail,
                           !.title = v.title,
                           !.summary = v.summary,
                           !.keywords = v.keywords,
                           !.modified = v.modified,
                           !.last_opened = last_opened,
                           !.snapshot_count = v.snapshot_count]
    IN  [files |-> (db.files \ {old}) \cup {new},
         fts   |-> TriggerAU(db.fts, old, new),
         last  |-> db.last]

\* the statement of db_upsert_file
UpsertFileSql(db, v) ==
    IF Conflicting(db.files, v.path) = {}
    THEN InsertRow(db, v)
    ELSE LET old == CHOOSE r \in Conflicting(db.files, v.path) : TRUE
         IN  UpdateRow(db, old, v, UpsertLastOpened(old, v))

\* the statement of scan_dir, preceded by the removal of the rows whose
\* file is missing: pruning interleaved with the walk
ScanUpsertSqlPruning(db, v) ==
    LET kept == {r \in db.files : Exists(fs, r.path)}
        d == [db EXCEPT !.files = kept, !.fts = {FtsEntry(r) : r \in kept}]
    IN  IF Conflicting(d.files, v.path) = {}
        THEN InsertRow(d, v)
        ELSE LET old == CHOOSE r \in Conflicting(d.files, v.path) : TRUE
             IN  UpdateRow(d, old, v, ScanLastOpened(old, v))

\* the statement of scan_dir
ScanUpsertSql(db, v) ==
    IF Conflicting(db.files, v.path) = {}
    THEN InsertRow(db, v)
    ELSE LET old == CHOOSE r \in Conflicting(db.files, v.path) : TRUE
         IN  UpdateRow(db, old, v, ScanLastOpened(old, v))

\* DELETE FROM files WHERE <cond>: every row of `gone` goes, trigger files_ad
\* runs for each
RECURSIVE DeleteRows(_, _)
DeleteRows(db, gone) ==
    IF gone = {} THEN db
    ELSE LET old == CHOOSE r \in gone : TRUE
         IN  DeleteRows([db EXCEPT !.files = @ \ {old},
                                   !.fts = TriggerAD(@, old)],
                        gone \ {old})

\* DELETE FROM files WHERE path = ?1
DeleteByPathSql(db, p) == DeleteRows(db, {r \in db.files : r.path = p})

\* DELETE FROM files WHERE id = ?1
DeleteByIdSql(db, id) == DeleteRows(db, {r \in db.files : r.id = id})

\* UPDATE files SET last_opened = ?1 WHERE path = ?2; trigger files_au runs
\* for each updated row
RECURSIVE TouchRows(_, _, _)
TouchRows(db, hit, ts) ==
    IF hit = {} THEN db
    ELSE LET old == CHOOSE r \in hit : TRUE
             new == [old EXCEPT !.last_opened = Some(ts)]
         IN  TouchRows([db EXCEPT !.files = (@ \ {old}) \cup {new},
                                  !.fts = TriggerAU(@, old, new)],
                       hit \ {old}, ts)

\* the UPDATE without its WHERE clause
UpdateLastOpenedSqlAll(db, p, ts) == TouchRows(db, db.files, ts)

\* UPDATE files SET last_opened = ?1 WHERE path = ?2
UpdateLastOpenedSql(db, p, ts) ==
    TouchRows(db, {r \in db.files : r.path = p}, ts)

-----------------------------------------------------------------------------
(* Full-text matching (FTS5, default tokenizer unicode61) *)

Upper == "ABCDEFGHIJKLMNOPQRSTUVWXYZ"
Lower == "abcdefghijklmnopqrstuvwxyz"
Digits == "0123456789"

InStr(c, s) == \E i \in 1..Len(s) : Ch(s, i) = c

IsAlnum(c) == InStr(c, Upper) \/ InStr(c, Lower) \/ InStr(c, Digits)

\* case folding of one character
Fold(c) ==
    IF InStr(c, Upper)
    THEN Ch(Lower, CHOOSE i \in 1..Len(Upper) : Ch(Upper, i) = c)
    ELSE c

RECURSIVE FoldAll(_)
FoldAll(s) == IF Len(s) = 0 THEN "" ELSE Fold(Ch(s, 1)) \o FoldAll(Drop(s, 1))

RECURSIVE AlnumLen(_)
AlnumLen(s) ==
    IF Len(s) = 0 \/ ~IsAlnum(Ch(s, 1)) THEN 0 ELSE 1 + AlnumLen(Drop(s, 1))

\* the terms unicode61 indexes for a text: maximal alphanumeric runs, folded
RECURSIVE Terms(_)
Terms(s) ==
    IF Len(s) = 0 THEN {}
    ELSE IF ~IsAlnum(Ch(s, 1)) THEN Terms(Drop(s, 1))
    ELSE {FoldAll(Take(s, AlnumLen(s)))} \cup Terms(Drop(s, AlnumLen(s)))

\* the terms indexed for a nullable column
ColumnTerms(o) == IF IsSome(o) THEN Terms(Unwrap(o)) ELSE {}

\* all terms of one index entry, over its four columns
EntryTerms(e) ==
    Terms(e.filename) \cup ColumnTerms(e.title) \cup ColumnTerms(e.summary)
        \cup ColumnTerms(e.keywords)

\* query.split_whitespace().map(|w| format!("{}*", w)): the words, each of
\* which becomes the FTS5 prefix token w*
FtsWords(query) == SplitWhitespace(query)

\* w* is an FTS5 bareword prefix only if w is made of bareword characters
\* and is none of the operators; anything else is a syntax error of MATCH
FtsSyntaxOk(w) ==
    /\ \A i \in 1..Len(w) : IsAlnum(Ch(w, i))
    /\ w \notin {"AND", "OR", "NOT"}

\* an FTS5 query needs at least one phrase, and every word must parse
FtsQueryOk(words) ==
    /\ Len(words) > 0
    /\ \A i \in 1..Len(words) : FtsSyntaxOk(words[i])

\* files_fts MATCH 'w1* w2* ...': every word is a prefix of some term of
\* the entry, in any column
Matches(e, words) ==
    \A i \in 1..Len(words) :
        \E t \in EntryTerms(e) : IsPrefix(FoldAll(words[i]), t)

-----------------------------------------------------------------------------
(* Queries *)

DefaultLimit == 50

\* ORDER BY col DESC: r comes before q (NULL sorts last; rows with equal
\* keys come in rowid order, the order of the table scan)
DescBefore(r, q, col) ==
    LET x == r[col]
        y == q[col]
    IN  IF x = y THEN r.id < q.id
        ELSE IF ~IsSome(y) THEN TRUE
        ELSE IF ~IsSome(x) THEN FALSE
        ELSE ~StrLeq(Unwrap(x), Unwrap(y))

RECURSIVE OrderDesc(_, _)
OrderDesc(rows, col) ==
    IF rows = {} THEN <<>>
    ELSE LET first == CHOOSE r \in rows :
                          \A q \in rows \ {r} : DescBefore(r, q, col)
         IN  <<first>> \o OrderDesc(rows \ {first}, col)

\* LIMIT n: a negative n is no limit
Limit(seq, n) ==
    IF n < 0 \/ n >= Len(seq) THEN seq ELSE Take(seq, n)

\* query.is_empty() instead of query.trim().is_empty()
UseFtsUntrimmed(params) ==
    IsSome(params.query) /\ Len(Unwrap(params.query)) > 0

\* query.trim().is_empty() decides between the two statements
UseFts(params) ==
    IsSome(params.query) /\ Len(Trim(Unwrap(params.query))) > 0

\* modified > ?2 / modified < ?3 instead of >= / <=
DateFilterStrict(r, params) ==
    /\ IsSome(params.from_date) =>
           IsSome(r.modified) /\ ~StrLeq(Unwrap(r.modified), Unwrap(params.from_date))
    /\ IsSome(params.to_date) =>
           IsSome(r.modified) /\ ~StrLeq(Unwrap(params.to_date), Unwrap(r.modified))

\* " AND modified >= ?2" / " AND modified <= ?3", appended when given
DateFilter(r, params) ==
    /\ IsSome(params.from_date) =>
           IsSome(r.modified) /\ StrLeq(Unwrap(params.from_date), Unwrap(r.modified))
    /\ IsSome(params.to_date) =>
           IsSome(r.modified) /\ StrLeq(Unwrap(r.modified), Unwrap(params.to_date))

\* db_search_files whose full-text statement comes without the date clauses
DbSearchFilesFtsUndated(db, params) ==
    LET limit == IF IsSome(params.limit) THEN Unwrap(params.limit) ELSE DefaultLimit
    IN  IF UseFts(params)
        THEN LET words == FtsWords(Unwrap(params.query))
                 hits  == {e.rowid : e \in {x \in db.fts : Matches(x, words)}}
                 rows  == {r \in db.files : r.id \in hits}
             IN  IF FtsQueryOk(words)
                 THEN [ok |-> TRUE, rows |-> Limit(OrderDesc(rows, "modified"), limit)]
                 ELSE [ok |-> FALSE, rows |-> <<>>]
        ELSE LET rows == {r \in db.files : DateFilter(r, params)}
             IN  [ok |-> TRUE, rows |-> Limit(OrderDesc(rows, "modified"), limit)]

\* db_search_files: [ok, rows]
DbSearchFiles(db, params) ==
    LET limit == IF IsSome(params.limit) THEN Unwrap(params.limit) ELSE DefaultLimit
    IN  IF UseFts(params)
        THEN LET words == FtsWords(Unwrap(params.query))
                 hits  == {e.rowid : e \in {x \in db.fts : Matches(x, words)}}
                 rows  == {r \in db.files : r.id \in hits /\ DateFilter(r, params)}
             IN  IF FtsQueryOk(words)
                 THEN [ok |-> TRUE, rows |-> Limit(OrderDesc(rows, "modified"), limit)]
                 ELSE [ok |-> FALSE, rows |-> <<>>]
        ELSE LET rows == {r \in db.files : DateFilter(r, params)}
             IN  [ok |-> TRUE, rows |-> Limit(OrderDesc(rows, "modified"), limit)]

\* db_get_recent_files without WHERE last_opened IS NOT NULL
DbGetRecentFilesUnfiltered(db, limit) ==
    [ok |-> TRUE,
     rows |-> Limit(OrderDesc(db.files, "last_opened"), limit)]

\* db_get_recent_files: [ok, rows]
DbGetRecentFiles(db, limit) ==
    [ok |-> TRUE,
     rows |-> Limit(OrderDesc({r \in db.files : IsSome(r.last_opened)},
                              "last_opened"), limit)]

-----------------------------------------------------------------------------
(* Callers and their inputs *)

Procs == {"t1", "t2"}
NoProc == "nobody"
Commands == {"upsert", "recent", "search", "remove", "touch", "rebuild"}

Paths == SsceFiles

\* LibraryFile values a caller passes to db_upsert_file
RecPlain(p) ==
    [path |-> p, filename |-> FileName(p), thumbnail |-> None, title |-> None,
     summary |-> None, keywords |-> None, modified |-> None,
     last_opened |-> None, snapshot_count |-> 0]
RecFull(p) ==
    [path |-> p, filename |-> FileName(p), thumbnail |-> Some("data:u"),
     title |-> Some("Budget Draft"), summary |-> Some("quarterly budget"),
     keywords |-> Some("alpha delta"), modified |-> Some("2024-02-01"),
     last_opened |-> Some("2024-05-05"), snapshot_count |-> 1]
RecOdd(p) ==
    [path |-> p, filename |-> "copy.ssce", thumbnail |-> None,
     title |-> Some("Notes"), summary |-> None, keywords |-> Some(""),
     modified |-> Some("2024-03-01"), last_opened |-> None,
     snapshot_count |-> -1]
RecOld(p) ==
    [path |-> p, filename |-> FileName(p), thumbnail |-> None,
     title |-> Some("Quarterly Report"), summary |-> None, keywords |-> None,
     modified |-> Some("2024-01-01"), last_opened |-> Some("2024-04-04"),
     snapshot_count |-> 0]
UpsertInputs == UNION {{RecPlain(p), RecFull(p), RecOdd(p)} : p \in Paths}

\* the documents saved by the caller that queries the index
QueryUpsertInputs ==
    {RecOld(PathA), RecPlain(PathA), RecFull(PathA), RecFull(PathB),
     RecOdd(PathC)}

Timestamps == {"2024-06-01"}

Queries ==
    {None, Some(""), Some(" \t"), Some("quart"), Some(" budget  NOT"),
     Some("zrep"), Some("NOT"), Some("QUART rep"), Some("alpha  budg"),
     Some("budget zrep")}
Dates == {None, Some("2024-02-01")}
Limits == {None, Some(1), Some(-1), Some(0)}
BlankQueries == {q \in Queries : IsSome(q) /\ Len(Trim(Unwrap(q))) = 0}
DatedQueries == {Some("quart"), Some("budget zrep")}
SearchInputs ==
    [query : {None} \cup BlankQueries, from_date : Dates, to_date : Dates,
     limit : {None}]
    \cup [query : {None, Some(" \t")}, from_date : Dates, to_date : {None},
          limit : Limits]
    \cup [query : Queries, from_date : Dates, to_date : {None}, limit : {None}]
    \cup [query : DatedQueries, from_date : Dates, to_date : Dates,
          limit : {None, Some(1), Some(-1)}]

RecentLimits == {1, -1}

\* the few requests of the specification of the whole library index
FewSearchInputs ==
    {[query |-> q, from_date |-> None, to_date |-> None, limit |-> None] :
        q \in {None, Some(" \t"), Some("quart")}}
FewRecentLimits == {-1}

LibraryPaths == {Root, Gone}

-----------------------------------------------------------------------------
(* State *)

Db == [files |-> files, fts |-> fts, last |-> lastRowid]

SetDb(db) ==
    /\ files' = db.files
    /\ fts' = db.fts
    /\ lastRowid' = db.last

IdleLoc ==
    [cmd |-> "none", arg |-> None, res |-> None, stack |-> <<>>, count |-> 0,
     waited |-> FALSE]

NoWritten == [p \in {} |-> None]

Init ==
    /\ files = {}
    /\ fts = {}
    /\ lastRowid = 0
    /\ lock = NoProc
    /\ pc = [p \in Procs |-> "idle"]
    /\ loc = [p \in Procs |-> IdleLoc]
    \* first start: an empty library.db; a.ssce and sub/b.ssce on disk
    /\ fs = [f \in SsceFiles |->
                IF f = PathA THEN Some(DocA)
                ELSE IF f = PathB THEN Some(DocB) ELSE None]
    /\ calls = 0
    /\ fsEvents = 0
    /\ pre = {}
    /\ written = NoWritten
    /\ fsChanged = FALSE
    /\ ioFailed = FALSE
    /\ prevRun = None
    /\ moved = None

Ok(v) == [ok |-> TRUE, val |-> v]
Err == [ok |-> FALSE, val |-> 0]

-----------------------------------------------------------------------------
(* Invocation and the mutex *)

\* the frontend invokes a command; waited records that the guard was held
\* by another caller at that moment
Invoke(p, c, budget) ==
    /\ pc[p] = "idle"
    /\ calls < budget
    /\ calls' = calls + 1
    /\ pc' = [pc EXCEPT ![p] = "wait"]
    /\ loc' = [loc EXCEPT ![p].cmd = c, ![p].waited = (lock # NoProc)]
    /\ UNCHANGED <<files, fts, lastRowid, lock, fs, fsEvents, pre, written,
                   fsChanged, ioFailed, prevRun, moved>>

\* a lock that never blocks
CanLockAlways(p) == TRUE

\* state.0.lock() returns only while no other caller holds the guard
CanLock(p) == lock = NoProc

\* try_lock in place of lock: a caller that finds the guard taken returns
\* an error at once
AcquireTry(p) ==
    /\ pc[p] = "wait"
    /\ IF CanLock(p)
       THEN /\ lock' = p
            /\ pc' = [pc EXCEPT ![p] = "run"]
            /\ pre' = files
            /\ written' = NoWritten
            /\ fsChanged' = FALSE
            /\ ioFailed' = FALSE
            /\ prevRun' = IF loc[p].cmd = "rebuild" THEN prevRun ELSE None
            /\ moved' = None
            /\ UNCHANGED loc
       ELSE /\ pc' = [pc EXCEPT ![p] = "done"]
            /\ loc' = [loc EXCEPT ![p].res = Err]
            /\ UNCHANGED <<lock, pre, written, fsChanged, ioFailed, prevRun,
                           moved>>
    /\ UNCHANGED <<files, fts, lastRowid, fs, calls, fsEvents>>

\* let conn = state.0.lock()...: first statement of every command
Acquire(p) ==
    /\ pc[p] = "wait"
    /\ CanLock(p)
    /\ lock' = p
    /\ pc' = [pc EXCEPT ![p] = "run"]
    /\ pre' = files
    /\ written' = NoWritten
    /\ fsChanged' = FALSE
    /\ ioFailed' = FALSE
    /\ prevRun' = IF loc[p].cmd = "rebuild" THEN prevRun ELSE None
    /\ moved' = None
    /\ UNCHANGED <<files, fts, lastRowid, loc, fs, calls, fsEvents>>

\* a command that returns an error keeps the guard
ReturnHoldsOnError(p) ==
    /\ pc[p] = "done"
    /\ lock' = IF loc[p].res.ok THEN NoProc ELSE lock
    /\ pc' = [pc EXCEPT ![p] = "idle"]
    /\ loc' = [loc EXCEPT ![p] = IdleLoc]
    /\ pre' = {}
    /\ written' = NoWritten
    /\ ioFailed' = FALSE
    /\ fsChanged' = FALSE
    /\ prevRun' = IF loc[p].cmd = "rebuild" /\ loc[p].res.ok /\ ~fsChanged
                  THEN Some([root |-> Unwrap(loc[p].arg), files |-> files,
                             count |-> loc[p].res.val])
                  ELSE None
    /\ moved' = None
    /\ UNCHANGED <<files, fts, lastRowid, fs, calls, fsEvents>>

\* the command returns and the guard is dropped
Return(p) ==
    /\ pc[p] = "done"
    /\ lock' = NoProc
    /\ pc' = [pc EXCEPT ![p] = "idle"]
    /\ loc' = [loc EXCEPT ![p] = IdleLoc]
    /\ pre' = {}
    /\ written' = NoWritten
    /\ ioFailed' = FALSE
    /\ fsChanged' = FALSE
    /\ prevRun' = IF loc[p].cmd = "rebuild" /\ loc[p].res.ok /\ ~fsChanged
                  THEN Some([root |-> Unwrap(loc[p].arg), files |-> files,
                             count |-> loc[p].res.val])
                  ELSE None
    /\ moved' = None
    /\ UNCHANGED <<files, fts, lastRowid, fs, calls, fsEvents>>

Finish(p, arg, res) ==
    /\ pc' = [pc EXCEPT ![p] = "done"]
    /\ loc' = [loc EXCEPT ![p].arg = Some(arg), ![p].res = res, ![p].stack = <<>>]

-----------------------------------------------------------------------------
(* The short commands *)

DbUpsertFile(p, inputs) ==
    /\ pc[p] = "run" /\ loc[p].cmd = "upsert"
    /\ \E file \in inputs :
          LET db == UpsertFileSql(Db, file)
          IN  /\ SetDb(db)
              /\ Finish(p, file, Ok(db.last))
    /\ UNCHANGED <<lock, fs, calls, fsEvents, pre, written, fsChanged,
                   ioFailed, prevRun, moved>>

DbGetRecentFilesCmd(p, limits) ==
    /\ pc[p] = "run" /\ loc[p].cmd = "recent"
    /\ \E limit \in limits :
          LET r == DbGetRecentFiles(Db, limit)
          IN  Finish(p, limit, [ok |-> r.ok, val |-> r.rows])
    /\ UNCHANGED <<files, fts, lastRowid, lock, fs, calls, fsEvents, pre,
                   written, fsChanged, ioFailed, prevRun, moved>>

DbSearchFilesCmd(p, inputs) ==
    /\ pc[p] = "run" /\ loc[p].cmd = "search"
    /\ \E params \in inputs :
          LET r == DbSearchFiles(Db, params)
          IN  Finish(p, params, [ok |-> r.ok, val |-> r.rows])
    /\ UNCHANGED <<files, fts, lastRowid, lock, fs, calls, fsEvents, pre,
                   written, fsChanged, ioFailed, prevRun, moved>>

DbRemoveFile(p) ==
    /\ pc[p] = "run" /\ loc[p].cmd = "remove"
    /\ \E path \in Paths :
          /\ SetDb(DeleteByPathSql(Db, path))
          /\ Finish(p, path, Ok(0))
    /\ UNCHANGED <<lock, fs, calls, fsEvents, pre, written, fsChanged,
                   ioFailed, prevRun, moved>>

DbUpdateLastOpened(p) ==
    /\ pc[p] = "run" /\ loc[p].cmd = "touch"
    /\ \E path \in Paths, timestamp \in Timestamps :
          /\ SetDb(UpdateLastOpenedSql(Db, path, timestamp))
          /\ Finish(p, [path |-> path, timestamp |-> timestamp], Ok(0))
    /\ UNCHANGED <<lock, fs, calls, fsEvents, pre, written, fsChanged,
                   ioFailed, prevRun, moved>>

-----------------------------------------------------------------------------
(* db_rebuild_from_library *)

\* arr.iter().filter_map(|k| k.as_str()): the string elements, in order
RECURSIVE StringElements(_)
StringElements(arr) ==
    IF Len(arr) = 0 THEN <<>>
    ELSE IF IsSome(arr[1]) THEN <<Unwrap(arr[1])>> \o StringElements(Tail(arr))
    ELSE StringElements(Tail(arr))

\* scan_dir that writes NULL as last_opened
ScanValuesNeverOpened(path, doc) ==
    [path |-> path,
     filename |-> FileName(path),
     thumbnail |-> doc.thumbnail,
     title |-> doc.title,
     summary |-> doc.summary,
     keywords |-> IF IsSome(doc.keywords)
                  THEN Some(Join(StringElements(Unwrap(doc.keywords)), " "))
                  ELSE None,
     modified |-> doc.modified,
     last_opened |-> None,
     snapshot_count |-> IF IsSome(doc.snapshots) THEN Unwrap(doc.snapshots) ELSE 0]

\* the column values scan_dir derives from a path and its parsed envelope
ScanValues(path, doc) ==
    [path |-> path,
     filename |-> FileName(path),
     thumbnail |-> doc.thumbnail,
     title |-> doc.title,
     summary |-> doc.summary,
     keywords |-> IF IsSome(doc.keywords)
                  THEN Some(Join(StringElements(Unwrap(doc.keywords)), " "))
                  ELSE None,
     modified |-> doc.modified,
     last_opened |-> doc.modified,
     snapshot_count |-> IF IsSome(doc.snapshots) THEN Unwrap(doc.snapshots) ELSE 0]

\* skip the entry that failed and go on with the walk
ScanFailSkip(p, rest) ==
    /\ pc' = pc
    /\ loc' = [loc EXCEPT ![p].stack = rest]

\* `?` on a failed read_dir, read_to_string or from_str: scan_dir and the
\* command return the error at once; rest is what the walk had left to do
ScanFail(p, rest) ==
    /\ pc' = [pc EXCEPT ![p] = "done"]
    /\ loc' = [loc EXCEPT ![p].res = Err, ![p].stack = <<>>]

\* the command goes on to scan and prune whatever the path is
RootMissingNever(disk, library_path) == FALSE

\* if !path.exists() { return Err("Library path does not exist") }
RootMissing(disk, library_path) == ~Exists(disk, library_path)

\* the check of the root, then scan_dir(path): fs::read_dir of the root,
\* which fails or yields the entries in some order
RebuildStart(p) ==
    /\ pc[p] = "run" /\ loc[p].cmd = "rebuild"
    /\ \E library_path \in LibraryPaths :
          IF RootMissing(fs, library_path)
          THEN /\ Finish(p, library_path, Err)
               /\ UNCHANGED ioFailed
          ELSE \/ /\ ioFailed' = TRUE
                  /\ pc' = [pc EXCEPT ![p] = "done"]
                  /\ loc' = [loc EXCEPT ![p].arg = Some(library_path),
                                        ![p].res = Err]
               \/ \E order \in Orders(DirEntries(fs, library_path)) :
                     /\ pc' = [pc EXCEPT ![p] = "scan"]
                     /\ loc' = [loc EXCEPT ![p].arg = Some(library_path),
                                           ![p].count = 0,
                                           ![p].stack = <<order>>]
                     /\ UNCHANGED ioFailed
    /\ UNCHANGED <<files, fts, lastRowid, lock, fs, calls, fsEvents, pre,
                   written, fsChanged, prevRun, moved>>

\* one turn of `for entry in entries` in the innermost scan_dir, or its
\* return when the entries are used up
ScanStep(p) ==
    /\ pc[p] = "scan"
    /\ LET st   == loc[p].stack
           n    == Len(st)
           top  == st[n]
           rest == [st EXCEPT ![n] = Tail(top)]
       IN  IF Len(top) = 0
           THEN \* Ok(()) of this scan_dir; after the outermost, the pruning
                /\ IF n = 1
                   THEN pc' = [pc EXCEPT ![p] = "prune"]
                   ELSE pc' = pc
                /\ loc' = [loc EXCEPT ![p].stack = Take(st, n - 1)]
                /\ UNCHANGED <<files, fts, lastRowid, written, ioFailed>>
           ELSE LET path == Head(top) IN
                IF IsDir(path)
                THEN \* scan_dir(&path, conn, count)?
                     \/ /\ ScanFail(p, rest)
                        /\ ioFailed' = TRUE
                        /\ UNCHANGED <<files, fts, lastRowid, written>>
                     \/ \E order \in Orders(DirEntries(fs, path)) :
                           /\ loc' = [loc EXCEPT ![p].stack = Append(rest, order)]
                           /\ UNCHANGED <<pc, files, fts, lastRowid, written,
                                          ioFailed>>
                ELSE IF IsSsce(path)
                THEN \* read_to_string and from_str fail, or the row is
                     \* written and counted
                     \/ /\ ScanFail(p, rest)
                        /\ ioFailed' = TRUE
                        /\ UNCHANGED <<files, fts, lastRowid, written>>
                     \/ /\ Exists(fs, path)
                        /\ \E v \in {ScanValues(path, Unwrap(fs[path]))} :
                           \E db \in {ScanUpsertSql(Db, v)} :
                           \E row \in {CHOOSE r \in db.files : r.path = v.path} :
                               /\ SetDb(db)
                               /\ written' =
                                    [q \in DOMAIN written \cup {v.path} |->
                                        IF q = v.path THEN row ELSE written[q]]
                        /\ loc' = [loc EXCEPT ![p].stack = rest,
                                              ![p].count = @ + 1]
                        /\ UNCHANGED <<pc, ioFailed>>
                ELSE \* neither a directory nor a .ssce file
                     /\ loc' = [loc EXCEPT ![p].stack = rest]
                     /\ UNCHANGED <<pc, files, fts, lastRowid, written, ioFailed>>
    /\ UNCHANGED <<lock, fs, calls, fsEvents, pre, fsChanged, prevRun, moved>>

\* no row is ever found stale
StaleIdsNone(rows, disk) == {}

\* the clean-up also takes every row whose path is not under the library
StaleIdsOutside(rows, disk) ==
    {r.id : r \in {x \in rows : ~Exists(disk, x.path)
                                  \/ ~IsPrefix(Root \o "/", x.path)}}

\* the clean-up spares the rows this walk has written
StaleIdsUnwritten(rows, disk) ==
    {r.id : r \in {x \in rows : ~Exists(disk, x.path)
                                  /\ x.path \notin DOMAIN written}}

\* SELECT id, path FROM files, filtered by !Path::new(path).exists()
StaleIds(rows, disk) == {r.id : r \in {x \in rows : ~Exists(disk, x.path)}}

\* for id in &stale_ids { DELETE FROM files WHERE id = ?1 }
RECURSIVE DeleteIds(_, _)
DeleteIds(db, ids) ==
    IF ids = {} THEN db
    ELSE LET id == CHOOSE i \in ids : TRUE
         IN  DeleteIds(DeleteByIdSql(db, id), ids \ {id})

\* the clean-up of stale entries, then Ok(count)
Prune(p) ==
    /\ pc[p] = "prune"
    /\ SetDb(DeleteIds(Db, StaleIds(files, fs)))
    /\ pc' = [pc EXCEPT ![p] = "done"]
    /\ loc' = [loc EXCEPT ![p].res = Ok(loc[p].count)]
    /\ UNCHANGED <<lock, fs, calls, fsEvents, pre, written, fsChanged,
                   ioFailed, prevRun, moved>>

-----------------------------------------------------------------------------
(* The filesystem changes under the application *)

FsChange(disk, rename) ==
    /\ fsEvents < MaxFsEvents
    /\ fsEvents' = fsEvents + 1
    /\ fs' = disk
    /\ fsChanged' = TRUE
    /\ prevRun' = None
    /\ moved' = rename
    /\ UNCHANGED <<files, fts, lastRowid, lock, pc, loc, calls, pre, written,
                   ioFailed>>

\* a document is created or saved
FsWrite(f, doc) ==
    /\ fs[f] # Some(doc)
    /\ FsChange([fs EXCEPT ![f] = Some(doc)], None)

\* a document is deleted
FsDelete(f) ==
    /\ IsSome(fs[f])
    /\ FsChange([fs EXCEPT ![f] = None], None)

\* a document is renamed
FsRename(f, g) ==
    /\ f # g
    /\ IsSome(fs[f])
    /\ FsChange([fs EXCEPT ![f] = None, ![g] = fs[f]],
                IF \E p \in Procs : pc[p] = "scan"
                THEN Some([from |-> f, to |-> g]) ELSE None)

-----------------------------------------------------------------------------

Next ==
    \/ \E p \in Procs, c \in Commands : Invoke(p, c, MaxCalls)
    \/ \E p \in Procs : Acquire(p)
    \/ \E p \in Procs : DbUpsertFile(p, UpsertInputs)
    \/ \E p \in Procs : DbGetRecentFilesCmd(p, FewRecentLimits)
    \/ \E p \in Procs : DbSearchFilesCmd(p, FewSearchInputs)
    \/ \E p \in Procs : DbRemoveFile(p)
    \/ \E p \in Procs : DbUpdateLastOpened(p)
    \/ \E p \in Procs : RebuildStart(p)
    \/ \E p \in Procs : ScanStep(p)
    \/ \E p \in Procs : Prune(p)
    \/ \E p \in Procs : Return(p)
    \/ \E f \in SsceFiles, doc \in Docs : FsWrite(f, doc)
    \/ \E f \in SsceFiles : FsDelete(f)
    \/ \E f, g \in SsceFiles : FsRename(f, g)

Spec == Init /\ [][Next]_vars

\* Two callers that rebuild the index and mark documents as opened, with
\* the scheduling the code relies on: a caller that has been invoked runs
\* on a thread of its own, so a step it can take for good -- getting the
\* free mutex, the next step of its command, its return -- is taken in the
\* end.  Nothing obliges the frontend to invoke commands.
LiveCommands == {"rebuild", "touch"}

Step(p) ==
    \/ Acquire(p)
    \/ DbUpdateLastOpened(p)
    \/ RebuildStart(p)
    \/ ScanStep(p)
    \/ Prune(p)
    \/ Return(p)

NextLive ==
    \/ \E p \in Procs, c \in LiveCommands : Invoke(p, c, MaxCalls)
    \/ \E p \in Procs : Acquire(p)
    \/ \E p \in Procs : DbUpdateLastOpened(p)
    \/ \E p \in Procs : RebuildStart(p)
    \/ \E p \in Procs : ScanStep(p)
    \/ \E p \in Procs : Prune(p)
    \/ \E p \in Procs : Return(p)

SpecLive ==
    Init /\ [][NextLive]_vars /\ \A p \in Procs : WF_vars(Step(p))

\* One caller that only saves documents and queries the index, with the
\* whole range of search requests
QueryCommands == {"upsert", "search", "recent"}

NextQuery ==
    \/ \E c \in QueryCommands : Invoke("t1", c, MaxQueryCalls)
    \/ Acquire("t1")
    \/ DbUpsertFile("t1", QueryUpsertInputs)
    \/ DbGetRecentFilesCmd("t1", RecentLimits)
    \/ DbSearchFilesCmd("t1", SearchInputs)
    \/ Return("t1")

SpecQuery == Init /\ [][NextQuery]_vars

-----------------------------------------------------------------------------
(* Properties *)

InCommand(p) == pc[p] \in {"run", "scan", "prune", "done"}

\* p is about to return from command c (everything but the drop of the
\* guard has run)
Returning(p, c) == pc[p] = "done" /\ loc[p].cmd = c

Arg(p) == Unwrap(loc[p].arg)

RowsAt(rows, path) == {r \in rows : r.path = path}

\* C1: the full-text index holds exactly one entry per row of files, keyed
\* by the row's id and carrying the row's current filename, title, summary
\* and keywords, and no entry for an id without a row -- in every state,
\* whatever commands ran, succeeded or failed.
C1_ShadowIndexMirrorsRows ==
    /\ fts = {FtsEntry(r) : r \in files}
    /\ Cardinality(fts) = Cardinality(files)

\* an upsert has just rewritten the indexed columns of an existing row
C1_Witness ==
    \E p \in Procs :
        /\ Returning(p, "upsert")
        /\ \E old \in RowsAt(pre, Arg(p).path) :
              /\ old.title # Arg(p).title
              /\ old.keywords # Arg(p).keywords

\* C2: no two rows of files have the same path; an upsert of a stored path,
\* by db_upsert_file or by the scan, updates the row instead of adding one.
C2_OneRowPerPath ==
    \A r, q \in files : r.path = q.path => r = q

\* the scan has just re-visited a path that already had a row
C2_Witness ==
    \E p \in Procs :
        /\ pc[p] = "scan"
        /\ \E path \in DOMAIN written : RowsAt(pre, path) # {}

\* C3: a scan that re-visits a row leaves a non-null last_opened as it was,
\* whatever the document's modified is, and sets a null last_opened to the
\* document's modified.
C3_ScanKeepsLastOpened ==
    \A p \in Procs :
        (InCommand(p) /\ loc[p].cmd = "rebuild") =>
            \A path \in DOMAIN written :
                /\ pc[p] = "scan" => written[path] \in files
                /\ \A old \in RowsAt(pre, path) :
                      written[path].last_opened =
                          IF IsSome(old.last_opened) THEN old.last_opened
                          ELSE written[path].modified

\* a row opened at one time was re-visited by a scan of a document that
\* declares another modified time
C3_Witness ==
    \E p \in Procs :
        /\ Returning(p, "rebuild")
        /\ \E path \in DOMAIN written :
              \E old \in RowsAt(pre, path) :
                  /\ IsSome(old.last_opened)
                  /\ IsSome(written[path].modified)
                  /\ written[path].modified # old.last_opened
                  /\ written[path] \in files

\* C4: at most one command runs against the store at a time, and the caller
\* that runs one holds the mutex from its first statement to its return --
\* a rebuild from before its walk until after its pruning.
C4_OneCommandAtATime ==
    /\ \A p, q \in Procs : (InCommand(p) /\ InCommand(q)) => p = q
    /\ \A p \in Procs : InCommand(p) => lock = p

\* a caller waits for the mutex while a rebuild is between two upserts
C4_Witness ==
    \E p, q \in Procs :
        /\ pc[p] = "scan" /\ loc[p].count > 0 /\ Len(loc[p].stack) > 0
        /\ pc[q] = "wait"

\* C5: when a rebuild succeeds and the disk did not change during the run,
\* every stored row's file exists on disk, and the index has no entry of a
\* removed row.
C5_NoStaleRowAfterRebuild ==
    \A p \in Procs :
        (Returning(p, "rebuild") /\ loc[p].res.ok /\ ~fsChanged) =>
            /\ \A r \in files : Exists(fs, r.path)
            /\ \A e \in fts : \E r \in files : r.id = e.rowid

\* a successful rebuild found a row whose file was gone
C5_Witness ==
    \E p \in Procs :
        /\ Returning(p, "rebuild") /\ loc[p].res.ok /\ ~fsChanged
        /\ \E r \in pre : ~Exists(fs, r.path)

\* the columns of a row that db_upsert_file takes from its argument
Payload(r) ==
    [path |-> r.path, filename |-> r.filename, thumbnail |-> r.thumbnail,
     title |-> r.title, summary |-> r.summary, keywords |-> r.keywords,
     modified |-> r.modified, last_opened |-> r.last_opened,
     snapshot_count |-> r.snapshot_count]

\* C6: after db_upsert_file(r) the row stored under r.path carries every
\* field of r, last_opened included, and the rows of other paths are what
\* they were before the call.
C6_UpsertReplacesEveryField ==
    \A p \in Procs :
        Returning(p, "upsert") =>
            /\ loc[p].res.ok
            /\ {Payload(x) : x \in RowsAt(files, Arg(p).path)} = {Arg(p)}
            /\ files \ RowsAt(files, Arg(p).path) = pre \ RowsAt(pre, Arg(p).path)

\* an upsert replaced a row that had another, non-null last_opened, while
\* another path had a row
C6_Witness ==
    \E p \in Procs :
        /\ Returning(p, "upsert")
        /\ \E old \in RowsAt(pre, Arg(p).path) :
              IsSome(old.last_opened) /\ old.last_opened # Arg(p).last_opened
        /\ pre \ RowsAt(pre, Arg(p).path) # {}

\* C7: db_upsert_file(r) returns the id of the row stored under r.path
\* after the call, on insert and on conflict alike.
C7_UpsertReturnsRowId ==
    \A p \in Procs :
        Returning(p, "upsert") =>
            \A x \in RowsAt(files, Arg(p).path) : loc[p].res.val = x.id

\* C8: a rebuild of the same root right after an undisturbed successful
\* rebuild, with no filesystem change and no other command in between,
\* leaves the same rows and returns the same count.
C8_RebuildIdempotent ==
    \A p \in Procs :
        (Returning(p, "rebuild") /\ loc[p].res.ok /\ IsSome(prevRun)
            /\ Unwrap(prevRun).root = Arg(p)) =>
            /\ files = Unwrap(prevRun).files
            /\ loc[p].res.val = Unwrap(prevRun).count

\* a second rebuild in a row has processed files and returns
C8_Witness ==
    \E p \in Procs :
        /\ Returning(p, "rebuild") /\ loc[p].res.ok /\ IsSome(prevRun)
        /\ loc[p].res.val > 1
        /\ files # {}

\* C9: once a read of a directory or of a candidate file has failed, the
\* rebuild is returning an error: nothing further is processed, no row is
\* deleted, and the rows written earlier in the run are in the store as
\* written, beside the untouched rows.
C9_ScanErrorAborts ==
    ioFailed =>
        \E p \in Procs :
            /\ Returning(p, "rebuild")
            /\ ~loc[p].res.ok
            /\ files = {written[path] : path \in DOMAIN written}
                         \cup {r \in pre : r.path \notin DOMAIN written}

\* a rebuild failed after it had written a row, with a stale row in store
C9_Witness ==
    /\ ioFailed
    /\ DOMAIN written # {}
    /\ \E r \in files : ~Exists(fs, r.path)

IsBlank(q) == IsSome(q) /\ Len(Trim(Unwrap(q))) = 0

\* C10: a search whose query is present but empty or all whitespace
\* succeeds with the result of the same search with no query; a search
\* whose trimmed query is not empty returns only rows that match it.
C10_BlankQueryIsPlainListing ==
    \A p \in Procs :
        Returning(p, "search") =>
            /\ IsBlank(Arg(p).query) =>
                  /\ loc[p].res.ok
                  /\ loc[p].res.val =
                        DbSearchFiles(Db, [Arg(p) EXCEPT !.query = None]).rows
            /\ (IsSome(Arg(p).query) /\ ~IsBlank(Arg(p).query) /\ loc[p].res.ok) =>
                  \A i \in 1..Len(loc[p].res.val) :
                      Matches(FtsEntry(loc[p].res.val[i]),
                              SplitWhitespace(Unwrap(Arg(p).query)))

\* a search with a whitespace query and a date bound returned some but not
\* all rows
C10_Witness ==
    \E p \in Procs :
        /\ Returning(p, "search")
        /\ IsBlank(Arg(p).query) /\ Len(Unwrap(Arg(p).query)) > 0
        /\ IsSome(Arg(p).from_date)
        /\ Len(loc[p].res.val) > 0
        /\ Len(loc[p].res.val) < Cardinality(files)

\* C11: a successful search, with or without a query, returns only rows
\* whose modified is >= from_date when from_date is given and <= to_date
\* when to_date is given (string comparison, each bound on its own, a row
\* without modified passing neither), in descending order of modified;
\* without a query and with the default limit it returns every such row.
C11_DateBoundsAndOrder ==
    \A p \in Procs :
        (Returning(p, "search") /\ loc[p].res.ok) =>
            LET params == Arg(p)
                rows == loc[p].res.val
                InRange(r) ==
                    /\ IsSome(params.from_date) =>
                          /\ IsSome(r.modified)
                          /\ StrLeq(Unwrap(params.from_date), Unwrap(r.modified))
                    /\ IsSome(params.to_date) =>
                          /\ IsSome(r.modified)
                          /\ StrLeq(Unwrap(r.modified), Unwrap(params.to_date))
            IN  /\ \A i \in 1..Len(rows) : rows[i] \in files /\ InRange(rows[i])
                /\ \A i, j \in 1..Len(rows) :
                      (i < j /\ IsSome(rows[j].modified)) =>
                          /\ IsSome(rows[i].modified)
                          /\ StrLeq(Unwrap(rows[j].modified),
                                    Unwrap(rows[i].modified))
                /\ (~IsSome(params.limit)
                        /\ (IsSome(params.query) => IsBlank(params.query))) =>
                      {rows[i] : i \in 1..Len(rows)} = {r \in files : InRange(r)}

\* rows modified 2024-01-01, 2024-02-01 and 2024-03-01 are stored and a
\* search from 2024-02-01 returned the latter two, newest first
C11_Witness ==
    \E p \in Procs :
        /\ Returning(p, "search") /\ loc[p].res.ok
        /\ Arg(p).from_date = Some("2024-02-01") /\ Arg(p).to_date = None
        /\ \E r \in files : r.modified = Some("2024-01-01")
        /\ Len(loc[p].res.val) = 2
        /\ loc[p].res.val[1].modified = Some("2024-03-01")
        /\ loc[p].res.val[2].modified = Some("2024-02-01")

\* the row's indexed text has, for every word, a term that starts with it
HasEveryWord(r, words) ==
    \A i \in 1..Len(words) :
        \E t \in Terms(r.filename) \cup ColumnTerms(r.title)
                    \cup ColumnTerms(r.summary) \cup ColumnTerms(r.keywords) :
            IsPrefix(FoldAll(words[i]), t)

\* C12: a successful search with a non-blank query and a from_date and/or
\* to_date returns only rows that both match the query and lie within every
\* bound given; no bound is dropped on the full-text path, so a matching
\* row outside a bound is never returned.
C12_FtsKeepsDateBounds ==
    \A p \in Procs :
        (Returning(p, "search") /\ loc[p].res.ok
            /\ IsSome(Arg(p).query) /\ ~IsBlank(Arg(p).query)) =>
            LET params == Arg(p)
                rows == loc[p].res.val
                words == SplitWhitespace(Unwrap(params.query))
            IN  \A i \in 1..Len(rows) :
                    /\ HasEveryWord(rows[i], words)
                    /\ IsSome(params.from_date) =>
                          /\ IsSome(rows[i].modified)
                          /\ StrLeq(Unwrap(params.from_date),
                                    Unwrap(rows[i].modified))
                    /\ IsSome(params.to_date) =>
                          /\ IsSome(rows[i].modified)
                          /\ StrLeq(Unwrap(rows[i].modified),
                                    Unwrap(params.to_date))

\* a search with a query and both bounds returned a row and left out a row
\* that matches the query but was modified before from_date
C12_Witness ==
    \E p \in Procs :
        /\ Returning(p, "search") /\ loc[p].res.ok
        /\ IsSome(Arg(p).query) /\ ~IsBlank(Arg(p).query)
        /\ IsSome(Arg(p).from_date) /\ IsSome(Arg(p).to_date)
        /\ Len(loc[p].res.val) > 0
        /\ \E r \in files :
              /\ HasEveryWord(r, SplitWhitespace(Unwrap(Arg(p).query)))
              /\ IsSome(r.modified)
              /\ ~StrLeq(Unwrap(Arg(p).from_date), Unwrap(r.modified))

\* C13: a search never returns more rows than its limit, for every 32-bit
\* limit (a zero or negative limit admitting no row at all), and never more
\* than 50 rows when no limit is given.
C13_LimitCapsResult ==
    \A p \in Procs :
        Returning(p, "search") =>
            LET limit == Arg(p).limit
                cap == IF ~IsSome(limit) THEN DefaultLimit
                       ELSE IF Unwrap(limit) < 0 THEN 0 ELSE Unwrap(limit)
            IN  Len(loc[p].res.val) <= cap

\* C14: a search with a non-blank query splits it on whitespace and
\* returns a row exactly when every word is a prefix of some indexed term
\* of the row's filename, title, summary or keywords (and the row passes
\* the date bounds): "Quarterly Report" is found by "quart" and not by
\* "zrep", and a row matching only some of the words is not returned.
C14_EveryWordIsAPrefix ==
    \A p \in Procs :
        (Returning(p, "search") /\ IsSome(Arg(p).query)
            /\ ~IsBlank(Arg(p).query) /\ ~IsSome(Arg(p).limit)) =>
            LET params == Arg(p)
                rows == loc[p].res.val
                words == SplitWhitespace(Unwrap(params.query))
                InRange(r) ==
                    /\ IsSome(params.from_date) =>
                          /\ IsSome(r.modified)
                          /\ StrLeq(Unwrap(params.from_date), Unwrap(r.modified))
                    /\ IsSome(params.to_date) =>
                          /\ IsSome(r.modified)
                          /\ StrLeq(Unwrap(r.modified), Unwrap(params.to_date))
            IN  {rows[i] : i \in 1..Len(rows)} =
                    {r \in files : HasEveryWord(r, words) /\ InRange(r)}

\* C15: remove_file(path) returns success having deleted the row of that
\* path, if there is one, together with its entry of the full-text index,
\* and nothing else: every other row and index entry is as before, and
\* with no row of that path the store is as before.
C15_RemoveDeletesOnlyThatPath ==
    \A p \in Procs :
        Returning(p, "remove") =>
            /\ loc[p].res.ok
            /\ files = {r \in pre : r.path # Arg(p)}
            /\ fts = {FtsEntry(r) : r \in {x \in pre : x.path # Arg(p)}}
            /\ Cardinality(fts) = Cardinality(files)

\* a stored path has just been removed while another row stays
C15_Witness ==
    \E p \in Procs :
        /\ Returning(p, "remove")
        /\ RowsAt(pre, Arg(p)) # {}
        /\ RowsAt(files, Arg(p)) = {}
        /\ files # {}

\* C16: touch_last_opened(path, timestamp) returns success having set
\* last_opened of the row of that path to the timestamp and changed nothing
\* else: the row keeps its id and other fields, the other rows are as
\* before, and with no row of that path none is created.
C16_TouchSetsOnlyLastOpened ==
    \A p \in Procs :
        Returning(p, "touch") =>
            /\ loc[p].res.ok
            /\ files = {IF r.path = Arg(p).path
                        THEN [r EXCEPT !.last_opened = Some(Arg(p).timestamp)]
                        ELSE r : r \in pre}

\* the row of a stored path has just got a new last_opened while another
\* row is in the store
C16_Witness ==
    \E p \in Procs :
        /\ Returning(p, "touch")
        /\ \E old \in RowsAt(pre, Arg(p).path) :
              old.last_opened # Some(Arg(p).timestamp)
        /\ \E r \in files : r.path # Arg(p).path

\* C17: get_recent_files(limit) returns only stored rows whose last_opened
\* is not null, in descending order of last_opened; when the limit is at
\* least the number of such rows, it returns all of them.
C17_RecentAreOpenedNewestFirst ==
    \A p \in Procs :
        Returning(p, "recent") =>
            LET rows == loc[p].res.val
                opened == {r \in files : IsSome(r.last_opened)}
            IN  /\ loc[p].res.ok
                /\ \A i \in 1..Len(rows) : rows[i] \in opened
                /\ \A i, j \in 1..Len(rows) :
                      i < j => StrLeq(Unwrap(rows[j].last_opened),
                                      Unwrap(rows[i].last_opened))
                /\ Arg(p) >= Cardinality(opened) =>
                      {rows[i] : i \in 1..Len(rows)} = opened

\* two rows opened at different times were returned, the later one first,
\* and a row that was never opened was left out
C17_Witness ==
    \E p \in Procs :
        /\ Returning(p, "recent")
        /\ Len(loc[p].res.val) = 2
        /\ loc[p].res.val[1].last_opened # loc[p].res.val[2].last_opened
        /\ \E r \in files : ~IsSome(r.last_opened)

\* C18: rebuild_from_library on a root that does not exist returns an
\* error and leaves the store as it was: no row is inserted, updated or
\* pruned, and the full-text index is unchanged.
C18_MissingRootChangesNothing ==
    \A p \in Procs :
        (Returning(p, "rebuild") /\ ~Exists(fs, Arg(p))) =>
            /\ ~loc[p].res.ok
            /\ files = pre
            /\ fts = {FtsEntry(r) : r \in pre}
            /\ DOMAIN written = {}

\* a rebuild of a missing root has just failed with a row in the store
\* whose file is not on disk
C18_Witness ==
    \E p \in Procs :
        /\ Returning(p, "rebuild")
        /\ ~Exists(fs, Arg(p))
        /\ \E r \in files : ~Exists(fs, r.path)

\* C19: a successful rebuild_from_library returns the number of document
\* files it upserted: one per file with the .ssce extension found under
\* the root at any depth, whether the path had a row before or not, and
\* none for other files or for the rows it pruned.
C19_CountIsFilesUpserted ==
    \A p \in Procs :
        (Returning(p, "rebuild") /\ loc[p].res.ok) =>
            /\ loc[p].res.val = Cardinality(DOMAIN written)
            /\ ~fsChanged =>
                  loc[p].res.val =
                      Cardinality({f \in Entries \ Dirs :
                                      /\ IsPrefix(Arg(p) \o "/", f)
                                      /\ Extension(f) = Some("ssce")
                                      /\ Exists(fs, f)})

\* a rebuild has just counted a file that already had a row and pruned the
\* row of a file that is gone
C19_Witness ==
    \E p \in Procs :
        /\ Returning(p, "rebuild") /\ loc[p].res.ok /\ ~fsChanged
        /\ loc[p].res.val > 0
        /\ \E r \in pre : r.path \in DOMAIN written
        /\ \E r \in pre : r \notin files

\* C20: when rebuild_from_library writes the row of a path that had none,
\* the row's last_opened is the modified value of the document's front
\* matter, so a newly found document that has one is among the rows
\* get_recent_files returns right after the rebuild.
C20_NewRowOpenedAtModified ==
    \A p \in Procs :
        (Returning(p, "rebuild") /\ ~fsChanged) =>
            \A path \in DOMAIN written :
                RowsAt(pre, path) = {} =>
                    LET row == written[path]
                        doc == Unwrap(fs[path])
                        recent == DbGetRecentFiles(Db, Cardinality(files)).rows
                    IN  /\ row.last_opened = doc.modified
                        /\ (loc[p].res.ok /\ IsSome(doc.modified)) =>
                              \E i \in 1..Len(recent) : recent[i] = row

\* a rebuild has just added the row of a document that has a modified
\* value, next to one that has none
C20_Witness ==
    \E p \in Procs :
        /\ Returning(p, "rebuild") /\ loc[p].res.ok /\ ~fsChanged
        /\ \E path \in DOMAIN written :
              /\ RowsAt(pre, path) = {}
              /\ IsSome(written[path].last_opened)
        /\ \E path \in DOMAIN written :
              /\ RowsAt(pre, path) = {}
              /\ ~IsSome(written[path].last_opened)

\* the .ssce files that are on disk under a root, at any depth
FilesUnder(disk, root) ==
    {f \in Entries \ Dirs :
        /\ IsPrefix(root \o "/", f)
        /\ Extension(f) = Some("ssce")
        /\ Exists(disk, f)}

\* C21: after a successful rebuild during which the disk did not change,
\* every .ssce file under the root has a row whose filename, thumbnail,
\* title, summary, keywords, modified and snapshot_count are the values
\* derived from the file's envelope, whatever the row held before: a field
\* the document does not declare is null in the row, and last_opened alone
\* may be the value the row had.
C21_RowsMirrorDocuments ==
    \A p \in Procs :
        (Returning(p, "rebuild") /\ loc[p].res.ok /\ ~fsChanged) =>
            \A f \in FilesUnder(fs, Arg(p)) :
                LET doc == Unwrap(fs[f]) IN
                \E r \in files :
                    /\ r.path = f
                    /\ r.filename = FileName(f)
                    /\ r.thumbnail = doc.thumbnail
                    /\ r.title = doc.title
                    /\ r.summary = doc.summary
                    /\ r.keywords = ScanValues(f, doc).keywords
                    /\ r.modified = doc.modified
                    /\ r.snapshot_count =
                          (IF IsSome(doc.snapshots) THEN Unwrap(doc.snapshots)
                           ELSE 0)
                    /\ \/ r.last_opened = doc.modified
                       \/ \E old \in RowsAt(pre, f) :
                             r.last_opened = old.last_opened

\* a rebuild has just gone over a row that had a title, a summary and
\* keywords for a document that declares none of them
C21_Witness ==
    \E p \in Procs :
        /\ Returning(p, "rebuild") /\ loc[p].res.ok /\ ~fsChanged
        /\ \E f \in FilesUnder(fs, Arg(p)) :
              /\ Unwrap(fs[f]).title = None
              /\ \E old \in RowsAt(pre, f) :
                    /\ IsSome(old.title) /\ IsSome(old.summary)
                    /\ IsSome(old.keywords) /\ IsSome(old.last_opened)
              /\ \E r \in RowsAt(files, f) : r.title = None

\* C22: within one rebuild the pruning pass runs at most once and only
\* after the walk has made all its upserts: a step of the rebuild that
\* takes a path out of the store is the step that ends the pruning pass
\* and the last one to change the store, it removes exactly the rows of
\* the store as the walk left it whose file is missing, and every other
\* change of the store by the rebuild is an upsert made during the walk.
C22_PruneOnceAfterWalk ==
    [][\A p \in Procs :
          (lock = p /\ loc[p].cmd = "rebuild" /\ files' # files) =>
              IF \E r \in files : RowsAt(files', r.path) = {}
              THEN /\ pc[p] = "prune" /\ pc'[p] = "done"
                   /\ files' = {r \in files : Exists(fs, r.path)}
              ELSE /\ pc[p] = "scan" /\ pc'[p] = "scan"
                   /\ \A r \in files : RowsAt(files', r.path) # {}]_vars

\* a rebuild has pruned a row after a walk that wrote two rows
C22_Witness ==
    \E p \in Procs :
        /\ Returning(p, "rebuild") /\ loc[p].res.ok
        /\ Cardinality(DOMAIN written) = 2
        /\ \E r \in pre : RowsAt(files, r.path) = {}

\* C23: the row stored under a path keeps its id from its creation to its
\* deletion -- no step, be it an upsert of a stored path, a touch or a
\* re-visit by the scan, changes the id of a path that stays in the store
\* -- and at every moment the ids of the stored rows are pairwise distinct.
C23_IdsAreStableAndDistinct ==
    /\ [](\A r, q \in files : r.id = q.id => r = q)
    /\ [][\A r \in files : \A q \in files' :
              r.path = q.path => r.id = q.id]_vars

\* an upsert has just rewritten the row of a stored path, which kept its
\* id, with another row in the store
C23_Witness ==
    \E p \in Procs :
        /\ Returning(p, "upsert")
        /\ \E old \in RowsAt(pre, Arg(p).path) :
              \E r \in RowsAt(files, Arg(p).path) : r.id = old.id /\ r # old
        /\ Cardinality(files) > 1

\* C24: the keywords of a row written by the scan are the strings of the
\* document's keywords list joined with single spaces, and null -- not the
\* empty string -- both when the document has no keywords list and when the
\* list is empty.
C24_EmptyKeywordsAreNull ==
    \A p \in Procs :
        (Returning(p, "rebuild") /\ ~fsChanged) =>
            \A path \in DOMAIN written :
                LET doc == Unwrap(fs[path])
                    list == IF IsSome(doc.keywords)
                            THEN StringElements(Unwrap(doc.keywords))
                            ELSE <<>>
                IN  written[path].keywords =
                        (IF Len(list) = 0 THEN None ELSE Some(Join(list, " ")))

\* C25: whatever upserts and rebuilds have run, snapshot_count of every
\* stored row is a non-negative integer, and that of a row written by the
\* scan is the length of the document's snapshots list, 0 without a list.
C25_SnapshotCountNonNegative ==
    /\ \A r \in files : r.snapshot_count >= 0
    /\ \A p \in Procs :
          (Returning(p, "rebuild") /\ ~fsChanged) =>
              \A path \in DOMAIN written :
                  LET doc == Unwrap(fs[path])
                  IN  written[path].snapshot_count =
                          (IF IsSome(doc.snapshots) THEN Unwrap(doc.snapshots)
                           ELSE 0)

\* C26: whatever upserts and rebuilds have run, the filename of every
\* stored row is the last segment of the row's path.
C26_FilenameIsLastSegment ==
    \A r \in files :
        LET slash == LastIndexOf(r.path, "/")
        IN  r.filename = SubSeq(r.path, slash + 1, Len(r.path))

\* C27 as stated: an operation invoked while another operation holds the
\* store returns a failure to its caller.
C27_ContentionIsAnError ==
    \A p \in Procs :
        (pc[p] = "done" /\ loc[p].waited) => ~loc[p].res.ok

\* C27: contention on the store is not an error and not a deadlock: an
\* operation invoked while another holds the store waits for the store and
\* then runs as usual -- the only failures returned are those of a rebuild
\* whose root is missing or whose walk met a read error -- and every
\* operation that has been invoked gets to its result.
C27_ContentionWaits ==
    /\ [](\A p \in Procs :
             (pc[p] = "done" /\ ~loc[p].res.ok) =>
                 /\ loc[p].cmd = "rebuild"
                 /\ IsSome(loc[p].arg)
                 /\ ioFailed \/ ~Exists(fs, Arg(p)))
    /\ \A p \in Procs : (pc[p] = "wait") ~> (pc[p] = "done")

\* a command invoked while a rebuild held the store has run and succeeded
C27_Witness ==
    \E p \in Procs :
        /\ pc[p] = "done" /\ loc[p].waited /\ loc[p].res.ok
        /\ \E r \in pre : r.path = PathB

C29_PruneIsNotConfinedToRoot ==
    \A p \in Procs :
        (Returning(p, "rebuild") /\ loc[p].res.ok /\ ~fsChanged) =>
            /\ {r.path : r \in files} =
                  FilesUnder(fs, Arg(p))
                      \cup {r.path : r \in {x \in pre : Exists(fs, x.path)}}
            /\ \A r \in pre :
                  ~IsPrefix(Arg(p) \o "/", r.path) =>
                      IF Exists(fs, r.path) THEN r \in files
                      ELSE RowsAt(files, r.path) = {}

\* a rebuild of the library has just kept the row of a document outside
\* the root whose file is on disk
C29_Witness ==
    \E p \in Procs :
        /\ Returning(p, "rebuild") /\ loc[p].res.ok /\ ~fsChanged
        /\ DOMAIN written # {}
        /\ \E r \in pre :
              /\ ~IsPrefix(Arg(p) \o "/", r.path)
              /\ Exists(fs, r.path)
              /\ r \in files

\* the rebuild of caller q has failed and has not yet returned
FailedRebuild(q) == Returning(q, "rebuild") /\ ~loc[q].res.ok

\* C30: a command takes the mutex once, as its first step, and the mutex
\* changes hands in no other way: it is released by the return of the
\* command that holds it, on every return -- the error returns of a
\* rebuild included.  So once a rebuild has failed the store becomes free
\* again, and a command waiting behind the failed rebuild gets the store
\* and runs to its result.
C30_GuardDroppedOnEveryReturn ==
    /\ [][\A p \in Procs :
             /\ (pc[p] = "wait" /\ pc'[p] # "wait") =>
                    (lock = NoProc /\ lock' = p /\ pc'[p] = "run")
             /\ (lock # p /\ lock' = p) => (pc[p] = "wait" /\ pc'[p] = "run")
             /\ (pc[p] = "done" /\ pc'[p] # "done") =>
                    (lock = p /\ lock' = NoProc /\ pc'[p] = "idle")
             /\ (lock = p /\ lock' # p) => (pc[p] = "done" /\ lock' = NoProc)
        ]_vars
    /\ \A q \in Procs : FailedRebuild(q) ~> (lock = NoProc)
    /\ \A p, q \in Procs :
           (FailedRebuild(q) /\ pc[p] = "wait") ~> (pc[p] = "done")

\* a command was invoked after a rebuild had failed on a read error in the
\* middle of its walk, and waits for the store the rebuild still holds
C30_Witness ==
    \E p, q \in Procs :
        /\ FailedRebuild(q) /\ ioFailed /\ loc[q].count > 0 /\ lock = q
        /\ pc[p] = "wait" /\ loc[p].waited

====
